---------------------------- MODULE Spec2Model ----------------------------
(***************************************************************************)
(* Verification model of the Inclinometer_dev bring-up examples (RP2350):  *)
(*   - src/Inclinometer.c      GPIO-wake dormant example                   *)
(*   - src/unnamed/part_000    timed-sleep example (powman_example)        *)
(*   - src/unnamed/part_001    ADXL367 accelerometer reader                *)
(* Each program is one linear control flow; `pc' is the position of main.  *)
(* Registers are 32-bit naturals.  The POWMAN register block accepts a bus *)
(* write only when bits 31:16 of the written value hold the password       *)
(* 0x5AFE (POWMAN_PASSWORD_BITS, as the writes of part_000 lines 93-100    *)
(* carry it); any other write leaves the register as it was and raises     *)
(* the block's BADPASSWD flag.                                             *)
(***************************************************************************)
EXTENDS Integers, Sequences, FiniteSets, TLC

VARIABLES
    pc,                 \* position of main() in the program under analysis
    \* ---- POWMAN register block (always-on domain) ----
    powman_state,       \* powman_hw->state
    pwrup0,             \* powman_hw->pwrup[0]
    vreg_lp_entry,      \* powman_hw->vreg_lp_entry
    vreg_ctrl,          \* powman_hw->vreg_ctrl
    scratch0,           \* powman_hw->scratch[0]
    badpasswd,          \* POWMAN BADPASSWD: a write lacked the password
    \* ---- USB PHY ----
    usb_phy_direct,     \* usb_hw->phy_direct, as the set of bits that are 1
    usb_phy_override,   \* usb_hw->phy_direct_override, as the set of bits
    \* ---- Inclinometer.c ----
    led,                \* output level of PICO_DEFAULT_LED_PIN
    i,                  \* loop counter of the post-wake for loop
    wakePinCfg,         \* pad configuration of the wake pin
    pinLevel,           \* level the outside world drives on WAKE_PIN
    pinHighSeen,        \* history: WAKE_PIN has presented a high level
    irqPending,         \* another interrupt/event is pending at the CPU
    otherSeen,          \* history: some other interrupt has been raised
    stateBefore,        \* history: powman_hw->state before the request
    dormantReqs,        \* history: calls of enter_dormant_p1_7
    \* ---- part_000 ----
    boots,              \* power-ons seen so far
    incThisBoot,        \* history: increments of scratch[0] in this boot
    \* ---- part_001 ----
    cs,                 \* output level of SPI_ACCEL_CS_PIN
    csDriven,           \* the CS pin is an output
    display_update_needed,
    timerArmed,         \* add_repeating_timer_ms has run
    sinceFire,          \* the timer was armed or fired since main last
                        \* halted at __wfi
    nFired, nRead, nPrinted,   \* history counters
    merged,             \* history: a firing found the flag still set
    spiBytes,           \* bytes moved in the current SPI transaction
    data,               \* uint8_t data[6]
    raw                 \* <<raw_x, raw_y, raw_z>>

hwVars    == <<powman_state, pwrup0, vreg_lp_entry, vreg_ctrl, scratch0,
               badpasswd, usb_phy_direct, usb_phy_override>>
gpioVars  == <<led, i, wakePinCfg, pinLevel, pinHighSeen, irqPending,
               otherSeen, stateBefore, dormantReqs>>
timedVars == <<boots, incThisBoot>>
accelVars == <<cs, csDriven, display_update_needed, timerArmed, sinceFire,
               nFired, nRead, nPrinted, merged, spiBytes, data, raw>>
vars      == <<pc, hwVars, gpioVars, timedVars, accelVars>>

---------------------------------------------------------------------------
(* Bit operations on naturals                                              *)

RECURSIVE BitAnd(_, _)
BitAnd(a, b) ==
    IF a = 0 \/ b = 0 THEN 0
    ELSE (a % 2) * (b % 2) + 2 * BitAnd(a \div 2, b \div 2)

RECURSIVE BitOr(_, _)
BitOr(a, b) ==
    IF a = 0 THEN b
    ELSE IF b = 0 THEN a
    ELSE (IF a % 2 = 1 \/ b % 2 = 1 THEN 1 ELSE 0)
         + 2 * BitOr(a \div 2, b \div 2)

RECURSIVE BitXor(_, _)
BitXor(a, b) ==
    IF a = 0 THEN b
    ELSE IF b = 0 THEN a
    ELSE (((a % 2) + (b % 2)) % 2) + 2 * BitXor(a \div 2, b \div 2)

RECURSIVE Pow2(_)
Pow2(n) == IF n = 0 THEN 1 ELSE 2 * Pow2(n - 1)

Field(reg, lsb, width) == (reg \div Pow2(lsb)) % Pow2(width)

\* A 32-bit word (uint32_t) as its two 16-bit halves.
W(hi, lo) == [hi |-> hi, lo |-> lo]
WOr(a, b)  == W(BitOr(a.hi, b.hi),  BitOr(a.lo, b.lo))
WAnd(a, b) == W(BitAnd(a.hi, b.hi), BitAnd(a.lo, b.lo))
WXor(a, b) == W(BitXor(a.hi, b.hi), BitXor(a.lo, b.lo))

\* (uint32_t)v << n, for v below 2^16 and n below 32.
Shl(v, n) ==
    IF n < 16
    THEN W(v \div Pow2(16 - n), (v % Pow2(16 - n)) * Pow2(n))
    ELSE W((v % Pow2(32 - n)) * Pow2(n - 16), 0)

\* w + 1 in 32 bits
WInc(w) ==
    IF w.lo < 65535 THEN W(w.hi, w.lo + 1)
    ELSE IF w.hi < 65535 THEN W(w.hi + 1, 0)
    ELSE W(0, 0)

---------------------------------------------------------------------------
(* POWMAN register block.  Its registers are 16 bits wide and held as      *)
(* naturals; a value on the bus is a 32-bit word.                          *)

POWMAN_PASSWORD_BITS == W(23294, 0)             \* 0x5afe0000
POWMAN_STATE_REQ_BITS == W(0, 240)              \* 0x000000f0
POWMAN_PWRUP0_SOURCE_LSB == 0
POWMAN_PWRUP0_ENABLE_LSB == 6
POWMAN_PWRUP0_DIRECTION_LSB == 7
POWMAN_PWRUP0_MODE_LSB == 8
POWMAN_PWRUP0_STATUS_LSB == 9
POWMAN_PWRUP0_DIRECTION_VALUE_HIGH_RISING == 1
POWMAN_PWRUP0_MODE_VALUE_LEVEL == 0
POWMAN_VREG_LP_ENTRY_VSEL_LSB == 4
POWMAN_VREG_LP_ENTRY_VSEL_BITS == W(0, 496)     \* 0x000001f0
POWMAN_VREG_CTRL_UNLOCK_BITS == W(0, 8192)      \* 0x00002000
VREG_VOLTAGE_0_60 == 1

\* Bits 31:16 of the written value are the password 0x5afe.
HasPassword(v) == v.hi = POWMAN_PASSWORD_BITS.hi

\* A bus write of the word `v' to a password-protected register holding
\* `old', through the plain address or the SET / XOR alias of it.
PowmanWrite(old, alias, v) ==
    IF ~HasPassword(v) THEN old
    ELSE CASE alias = "plain" -> v.lo
           [] alias = "set"   -> BitOr(old, v.lo)
           [] alias = "xor"   -> BitXor(old, v.lo)

\* hw_set_bits(addr, mask): one write of mask to the SET alias.
hw_set_bits(old, mask) == PowmanWrite(old, "set", mask)

\* hw_write_masked(addr, values, write_mask):
\*   hw_xor_bits(addr, (*addr ^ values) & write_mask)
hw_write_masked_value(old, values, write_mask) ==
    WAnd(WXor(W(0, old), values), write_mask)

hw_write_masked(old, values, write_mask) ==
    PowmanWrite(old, "xor", hw_write_masked_value(old, values, write_mask))

---------------------------------------------------------------------------
(* src/Inclinometer.c: GPIO-wake dormant example                           *)

WAKE_PIN == 22
POST_WAKE_TOGGLES == 10

\* Values the always-on registers may hold when main starts: the block is
\* not reset by a warm reset, so an earlier image's values are possible.
StateSamples == {0, 15, 271}
PwrupSamples == {0, 63, 323}

\* The PWRUP0 wake logic: armed for `pin', level mode, high.
WakeArmed(reg, pin) ==
    /\ Field(reg, POWMAN_PWRUP0_ENABLE_LSB, 1) = 1
    /\ Field(reg, POWMAN_PWRUP0_SOURCE_LSB, 6) = pin
    /\ Field(reg, POWMAN_PWRUP0_DIRECTION_LSB, 1)
           = POWMAN_PWRUP0_DIRECTION_VALUE_HIGH_RISING
    /\ Field(reg, POWMAN_PWRUP0_MODE_LSB, 1) = POWMAN_PWRUP0_MODE_VALUE_LEVEL

WakeAsserted == WakeArmed(pwrup0, WAKE_PIN) /\ pinLevel = 1

\* What releases a halted CPU: the armed wake condition or any pending
\* interrupt (__wfi is "wait for interrupt", whichever it is).
CpuReleased == WakeAsserted \/ irqPending

\* The value setup_dormant_wakeup builds (lines 73-77).
pwrup_config(gpio_pin) ==
    WOr(WOr(Shl(gpio_pin, POWMAN_PWRUP0_SOURCE_LSB),
            Shl(POWMAN_PWRUP0_DIRECTION_VALUE_HIGH_RISING,
                POWMAN_PWRUP0_DIRECTION_LSB)),
        WOr(Shl(POWMAN_PWRUP0_MODE_VALUE_LEVEL, POWMAN_PWRUP0_MODE_LSB),
            Shl(1, POWMAN_PWRUP0_ENABLE_LSB)))

\* The request enter_dormant_p1_7 writes (line 35); part_000 line 61 writes
\* POWMAN_STATE_REQ_BITS in its place.
req_state_bits == W(0, 240)      \* 0xF0

InitGpioProg ==
    /\ pc = "g_led_init"
    /\ led = 0 /\ i = 0 /\ wakePinCfg = "reset"
    /\ pinLevel \in {0, 1} /\ pinHighSeen = (pinLevel = 1)
    /\ irqPending = FALSE /\ otherSeen = FALSE /\ dormantReqs = 0
    /\ stateBefore = 0

IdleTimed == boots = 0 /\ incThisBoot = 0
IdleAccel ==
    /\ cs = 0 /\ csDriven = FALSE /\ display_update_needed = FALSE
    /\ timerArmed = FALSE /\ sinceFire = FALSE
    /\ nFired = 0 /\ nRead = 0 /\ nPrinted = 0 /\ merged = FALSE
    /\ spiBytes = 0 /\ data = <<0, 0, 0, 0, 0, 0>> /\ raw = <<0, 0, 0>>
IdleGpio ==
    /\ led = 0 /\ i = 0 /\ wakePinCfg = "reset" /\ pinLevel = 0
    /\ pinHighSeen = FALSE /\ irqPending = FALSE /\ otherSeen = FALSE
    /\ dormantReqs = 0 /\ stateBefore = 0
IdleHw ==
    /\ powman_state = 15 /\ pwrup0 = 63 /\ vreg_lp_entry = 0
    /\ vreg_ctrl = 0 /\ scratch0 = W(0, 0) /\ badpasswd = FALSE
    /\ usb_phy_direct = {} /\ usb_phy_override = {}

InitGpio ==
    /\ InitGpioProg
    /\ powman_state \in StateSamples /\ pwrup0 \in PwrupSamples
    /\ vreg_lp_entry = 0 /\ vreg_ctrl = 0 /\ scratch0 = W(0, 0)
    /\ badpasswd = FALSE
    /\ usb_phy_direct = {} /\ usb_phy_override = {}
    /\ IdleTimed /\ IdleAccel

GpioStep(from, to) == pc = from /\ pc' = to

\* main lines 86-87
main_led_init ==
    /\ GpioStep("g_led_init", "g_wake_gpio")
    /\ led' = 0
    /\ UNCHANGED <<hwVars, i, wakePinCfg, pinLevel, pinHighSeen, irqPending,
                   otherSeen, dormantReqs, stateBefore, timedVars, accelVars>>

\* setup_dormant_wakeup lines 62-64
setup_dormant_wakeup_gpio ==
    /\ GpioStep("g_wake_gpio", "g_pwrup_disable")
    /\ wakePinCfg' = "input_pulldown"
    /\ UNCHANGED <<hwVars, led, i, pinLevel, pinHighSeen, irqPending,
                   otherSeen, dormantReqs, stateBefore, timedVars, accelVars>>

\* One plain store to powman_hw->pwrup[0].
StorePwrup0(v) ==
    /\ pwrup0' = PowmanWrite(pwrup0, "plain", v)
    /\ badpasswd' = (badpasswd \/ ~HasPassword(v))
    /\ UNCHANGED <<powman_state, vreg_lp_entry, vreg_ctrl, scratch0,
                   usb_phy_direct, usb_phy_override>>

\* line 68
setup_dormant_wakeup_disable ==
    /\ GpioStep("g_pwrup_disable", "g_pwrup_clear")
    /\ StorePwrup0(Shl(0, POWMAN_PWRUP0_ENABLE_LSB))
    /\ UNCHANGED <<gpioVars, timedVars, accelVars>>

\* line 69
setup_dormant_wakeup_clear ==
    /\ GpioStep("g_pwrup_clear", "g_pwrup_config")
    /\ StorePwrup0(Shl(1, POWMAN_PWRUP0_STATUS_LSB))
    /\ UNCHANGED <<gpioVars, timedVars, accelVars>>

\* lines 73-80
setup_dormant_wakeup_config ==
    /\ GpioStep("g_pwrup_config", "g_blink_on")
    /\ StorePwrup0(pwrup_config(WAKE_PIN))
    /\ UNCHANGED <<gpioVars, timedVars, accelVars>>

\* main lines 95-96
main_blink_on ==
    /\ GpioStep("g_blink_on", "g_blink_off")
    /\ led' = 1
    /\ UNCHANGED <<hwVars, i, wakePinCfg, pinLevel, pinHighSeen, irqPending,
                   otherSeen, dormantReqs, stateBefore, timedVars, accelVars>>

\* main lines 97-98
main_blink_off ==
    /\ GpioStep("g_blink_off", "g_state_req")
    /\ led' = 0
    /\ UNCHANGED <<hwVars, i, wakePinCfg, pinLevel, pinHighSeen, irqPending,
                   otherSeen, dormantReqs, stateBefore, timedVars, accelVars>>

\* main line 101 and enter_dormant_p1_7 lines 35-39
enter_dormant_p1_7_request ==
    /\ GpioStep("g_state_req", "g_xosc_dormant")
    /\ powman_state' = hw_set_bits(powman_state, req_state_bits)
    /\ badpasswd' = (badpasswd \/ ~HasPassword(req_state_bits))
    /\ dormantReqs' = dormantReqs + 1
    /\ stateBefore' = powman_state
    /\ UNCHANGED <<pwrup0, vreg_lp_entry, vreg_ctrl, scratch0,
                   usb_phy_direct, usb_phy_override, led, i, wakePinCfg,
                   pinLevel, pinHighSeen, irqPending, otherSeen, timedVars,
                   accelVars>>

\* A faulty variant of WaitOver: the waits of lines 42 and 45 do not block.
WaitOver_NoBlock == TRUE

\* Whether a halted CPU may go on.
WaitOver == CpuReleased

\* line 42: xosc_dormant() stops the oscillator; execution goes on once an
\* interrupt or wake event restarts it.
enter_dormant_p1_7_xosc ==
    /\ GpioStep("g_xosc_dormant", "g_wfi")
    /\ WaitOver
    /\ irqPending' = FALSE
    /\ UNCHANGED <<hwVars, led, i, wakePinCfg, pinLevel, pinHighSeen,
                   otherSeen, dormantReqs, stateBefore, timedVars, accelVars>>

\* line 45: __wfi()
enter_dormant_p1_7_wfi ==
    /\ GpioStep("g_wfi", "g_nops")
    /\ WaitOver
    /\ irqPending' = FALSE
    /\ UNCHANGED <<hwVars, led, i, wakePinCfg, pinLevel, pinHighSeen,
                   otherSeen, dormantReqs, stateBefore, timedVars, accelVars>>

\* lines 49-52, return to main, i = 0 of line 106
enter_dormant_p1_7_return ==
    /\ GpioStep("g_nops", "g_for")
    /\ i' = 0
    /\ UNCHANGED <<hwVars, led, wakePinCfg, pinLevel, pinHighSeen,
                   irqPending, otherSeen, dormantReqs, stateBefore, timedVars, accelVars>>

ToggleCount == POST_WAKE_TOGGLES

\* main lines 106-109: one pass of the for loop, or its exit
main_post_wake_toggle ==
    /\ pc = "g_for"
    /\ IF i < ToggleCount
       THEN /\ led' = 1 - led
            /\ i' = i + 1
            /\ pc' = "g_for"
       ELSE /\ pc' = "g_loop_on"
            /\ UNCHANGED <<led, i>>
    /\ UNCHANGED <<hwVars, wakePinCfg, pinLevel, pinHighSeen, irqPending,
                   otherSeen, dormantReqs, stateBefore, timedVars, accelVars>>

\* A faulty variant of LoopBack: the main loop falls back into the dormant entry.
LoopBack_Reenter == "g_state_req"

\* Where main goes after line 116.
LoopBack == "g_loop_on"

\* main lines 113-114
main_loop_on ==
    /\ GpioStep("g_loop_on", "g_loop_off")
    /\ led' = 1
    /\ UNCHANGED <<hwVars, i, wakePinCfg, pinLevel, pinHighSeen, irqPending,
                   otherSeen, dormantReqs, stateBefore, timedVars, accelVars>>

\* main lines 115-116
main_loop_off ==
    /\ GpioStep("g_loop_off", LoopBack)
    /\ led' = 0
    /\ UNCHANGED <<hwVars, i, wakePinCfg, pinLevel, pinHighSeen, irqPending,
                   otherSeen, dormantReqs, stateBefore, timedVars, accelVars>>

\* The outside world drives WAKE_PIN.
WakePinChange ==
    /\ pinLevel' = 1 - pinLevel
    /\ pinHighSeen' = (pinHighSeen \/ pinLevel' = 1)
    /\ UNCHANGED <<pc, hwVars, led, i, wakePinCfg, irqPending, otherSeen,
                   dormantReqs, stateBefore, timedVars, accelVars>>

\* Any other interrupt or event reaches the CPU.
OtherInterrupt ==
    /\ ~irqPending
    /\ irqPending' = TRUE
    /\ otherSeen' = TRUE
    /\ UNCHANGED <<pc, hwVars, led, i, wakePinCfg, pinLevel, pinHighSeen,
                   dormantReqs, stateBefore, timedVars, accelVars>>

MainGpio ==
    \/ main_led_init
    \/ setup_dormant_wakeup_gpio
    \/ setup_dormant_wakeup_disable
    \/ setup_dormant_wakeup_clear
    \/ setup_dormant_wakeup_config
    \/ main_blink_on
    \/ main_blink_off
    \/ enter_dormant_p1_7_request
    \/ enter_dormant_p1_7_xosc
    \/ enter_dormant_p1_7_wfi
    \/ enter_dormant_p1_7_return
    \/ main_post_wake_toggle
    \/ main_loop_on
    \/ main_loop_off

NextGpio == MainGpio \/ WakePinChange \/ OtherInterrupt

SpecGpio == InitGpio /\ [][NextGpio]_vars

\* main runs whenever it is not halted.
FairSpecGpio == SpecGpio /\ WF_vars(MainGpio)


---------------------------------------------------------------------------
(* Claims about src/Inclinometer.c                                         *)

BeforeSetupDone == {"g_led_init", "g_wake_gpio", "g_pwrup_disable",
                    "g_pwrup_clear", "g_pwrup_config"}
DormantEntry    == {"g_state_req", "g_xosc_dormant", "g_wfi"}
AfterWfi        == {"g_nops", "g_for", "g_loop_on", "g_loop_off"}
InBlinkLoop     == pc \in {"g_loop_on", "g_loop_off"}

\* C1: whenever enter_dormant_p1_7 is about to write the power-state
\* request, stop the oscillator or execute __wfi, setup_dormant_wakeup has
\* completed and PWRUP0 holds an enabled configuration whose source is
\* WAKE_PIN.
C1_WakeArmedBeforeDormant ==
    pc \in DormantEntry =>
        /\ pc \notin BeforeSetupDone
        /\ wakePinCfg = "input_pulldown"
        /\ Field(pwrup0, POWMAN_PWRUP0_ENABLE_LSB, 1) = 1
        /\ Field(pwrup0, POWMAN_PWRUP0_SOURCE_LSB, 6) = WAKE_PIN

\* C2: when xosc_dormant() is called and when __wfi executes, the request
\* bits 7..4 of the state register are all set, every other bit of the
\* register is as it was before the write, and both variants of the
\* function request the same bits.
C2_RequestBitsWrittenBeforeSleep ==
    pc \in {"g_xosc_dormant", "g_wfi"} =>
        /\ BitAnd(powman_state, 240) = 240
        /\ BitAnd(powman_state, 65295) = BitAnd(stateBefore, 65295)
        /\ req_state_bits = POWMAN_STATE_REQ_BITS

\* C3: when setup_dormant_wakeup returns, PWRUP0 holds exactly SOURCE =
\* pin, DIRECTION = high/rising, MODE = level, ENABLE = 1; and between the
\* disabling write and the configuration write ENABLE is 0.
C3_WakeRegisterConfigured ==
    /\ pc = "g_blink_on" =>
           /\ pwrup0 = pwrup_config(WAKE_PIN).lo
           /\ WakeArmed(pwrup0, WAKE_PIN)
    /\ pc \in {"g_pwrup_clear", "g_pwrup_config"} =>
           Field(pwrup0, POWMAN_PWRUP0_ENABLE_LSB, 1) = 0

\* C4 as stated: main is past the __wfi only after WAKE_PIN has presented
\* its high level, and not because of another interrupt.
C4_OnlyWakePinResumes ==
    pc \in AfterWfi => pinHighSeen

\* C4 as amended: main is past the __wfi only after an interrupt or wake
\* event has reached the CPU: the armed wake pin's high level or any
\* other interrupt.
C4_ResumesOnlyAfterSomeInterrupt ==
    pc \in AfterWfi =>
        \/ otherSeen
        \/ pinHighSeen /\ WakeArmed(pwrup0, WAKE_PIN)

\* C4 witness: main has resumed although WAKE_PIN never went high.
C4_Witness ==
    pc = "g_for" /\ ~pinHighSeen /\ otherSeen /\ dormantReqs = 1

C8_EveryPowmanWriteCarriesPassword ==
    badpasswd = FALSE

---------------------------------------------------------------------------
(* src/unnamed/part_000: timed-sleep example                               *)

MaxBoots == 3

VregLpSamples   == {0, 180, 496}
VregCtrlSamples == {0, 32848}
ScratchSamples  == {W(0, 0), W(0, 65535), W(65535, 65535)}

\* disable_usb line 45
USB_PHY_DIRECT_DISABLE ==
    {"TX_PD", "RX_PD", "DM_PULLDN_EN", "DP_PULLDN_EN"}

\* disable_usb lines 46-51
USB_PHY_OVERRIDE_DISABLE ==
    {"RX_DM", "RX_DP", "RX_DD",
     "TX_DIFFMODE_OVERRIDE_EN", "DM_PULLUP_OVERRIDE_EN",
     "TX_FSSLEW_OVERRIDE_EN", "TX_PD_OVERRIDE_EN", "RX_PD_OVERRIDE_EN",
     "TX_DM_OVERRIDE_EN", "TX_DP_OVERRIDE_EN", "TX_DM_OE_OVERRIDE_EN",
     "TX_DP_OE_OVERRIDE_EN", "DM_PULLDN_EN_OVERRIDE_EN",
     "DP_PULLDN_EN_OVERRIDE_EN", "DP_PULLUP_EN_OVERRIDE_EN",
     "DM_PULLUP_HISEL_OVERRIDE_EN", "DP_PULLUP_HISEL_OVERRIDE_EN"}

InitTimed ==
    /\ pc = "t_clock"
    /\ powman_state = 15 /\ pwrup0 = 63
    /\ vreg_lp_entry \in VregLpSamples
    /\ vreg_ctrl \in VregCtrlSamples
    /\ scratch0 \in ScratchSamples
    /\ badpasswd = FALSE
    /\ usb_phy_direct = {} /\ usb_phy_override = {}
    /\ boots = 1 /\ incThisBoot = 0
    /\ IdleGpio /\ IdleAccel

TimedStep(from, to) == pc = from /\ pc' = to

\* main line 79
timed_set_sys_clock ==
    /\ TimedStep("t_clock", "t_gpio")
    /\ UNCHANGED <<hwVars, gpioVars, timedVars, accelVars>>

\* main lines 82-89
timed_gpio_setup ==
    /\ TimedStep("t_gpio", "t_vreg_lp")
    /\ UNCHANGED <<hwVars, gpioVars, timedVars, accelVars>>

\* A faulty variant of vreg_lp_mask: the write mask leaves the password out.
vreg_lp_mask_NoPassword == POWMAN_VREG_LP_ENTRY_VSEL_BITS

\* The value and mask of lines 95-96.
vreg_lp_values ==
    WOr(POWMAN_PASSWORD_BITS,
        Shl(VREG_VOLTAGE_0_60, POWMAN_VREG_LP_ENTRY_VSEL_LSB))
vreg_lp_mask == WOr(POWMAN_PASSWORD_BITS, POWMAN_VREG_LP_ENTRY_VSEL_BITS)

\* main lines 93-97
timed_vreg_lp_entry ==
    /\ TimedStep("t_vreg_lp", "t_vreg_unlock")
    /\ vreg_lp_entry' =
           hw_write_masked(vreg_lp_entry, vreg_lp_values, vreg_lp_mask)
    /\ badpasswd' = (badpasswd \/ ~HasPassword(
           hw_write_masked_value(vreg_lp_entry, vreg_lp_values, vreg_lp_mask)))
    /\ UNCHANGED <<powman_state, pwrup0, vreg_ctrl, scratch0,
                   usb_phy_direct, usb_phy_override, gpioVars, timedVars,
                   accelVars>>

\* The mask of line 100.
vreg_unlock_bits == WOr(POWMAN_PASSWORD_BITS, POWMAN_VREG_CTRL_UNLOCK_BITS)

\* main line 100
timed_vreg_unlock ==
    /\ TimedStep("t_vreg_unlock", "t_usb")
    /\ vreg_ctrl' = hw_set_bits(vreg_ctrl, vreg_unlock_bits)
    /\ badpasswd' = (badpasswd \/ ~HasPassword(vreg_unlock_bits))
    /\ UNCHANGED <<powman_state, pwrup0, vreg_lp_entry, scratch0,
                   usb_phy_direct, usb_phy_override, gpioVars, timedVars,
                   accelVars>>

\* main line 114, disable_usb lines 44-52
disable_usb ==
    /\ TimedStep("t_usb", "t_init")
    /\ usb_phy_direct' = USB_PHY_DIRECT_DISABLE
    /\ usb_phy_override' = USB_PHY_OVERRIDE_DISABLE
    /\ UNCHANGED <<powman_state, pwrup0, vreg_lp_entry, vreg_ctrl, scratch0,
                   badpasswd, gpioVars, timedVars, accelVars>>

\* main line 122
timed_powman_example_init ==
    /\ TimedStep("t_init", "t_scratch")
    /\ UNCHANGED <<hwVars, gpioVars, timedVars, accelVars>>

\* main line 125: scratch is not password-protected (a full 32-bit register)
timed_scratch_increment ==
    /\ TimedStep("t_scratch", "t_sleep")
    /\ scratch0' = WInc(scratch0)
    /\ incThisBoot' = incThisBoot + 1
    /\ UNCHANGED <<powman_state, pwrup0, vreg_lp_entry, vreg_ctrl, badpasswd,
                   usb_phy_direct, usb_phy_override, gpioVars, boots,
                   accelVars>>

\* main line 131
timed_sleep_awake ==
    /\ TimedStep("t_sleep", "t_off")
    /\ UNCHANGED <<hwVars, gpioVars, timedVars, accelVars>>

\* main line 134: the call returns an error code, and main goes on to its
\* loop ...
timed_off_returns ==
    /\ TimedStep("t_off", "t_loop")
    /\ UNCHANGED <<hwVars, gpioVars, timedVars, accelVars>>

\* ... or the chip powers down and the alarm boots it again: main restarts,
\* the always-on POWMAN registers keep their values, the USB block is reset.
timed_off_powers_down ==
    /\ TimedStep("t_off", "t_clock")
    /\ boots < MaxBoots
    /\ boots' = boots + 1
    /\ incThisBoot' = 0
    /\ usb_phy_direct' = {} /\ usb_phy_override' = {}
    /\ UNCHANGED <<powman_state, pwrup0, vreg_lp_entry, vreg_ctrl, scratch0,
                   badpasswd, gpioVars, accelVars>>

\* main lines 144-146
timed_tight_loop ==
    /\ TimedStep("t_loop", "t_loop")
    /\ UNCHANGED <<hwVars, gpioVars, timedVars, accelVars>>

NextTimed ==
    \/ timed_set_sys_clock
    \/ timed_gpio_setup
    \/ timed_vreg_lp_entry
    \/ timed_vreg_unlock
    \/ disable_usb
    \/ timed_powman_example_init
    \/ timed_scratch_increment
    \/ timed_sleep_awake
    \/ timed_off_returns
    \/ timed_off_powers_down
    \/ timed_tight_loop

SpecTimed == InitTimed /\ [][NextTimed]_vars

\* C5: when powman_example_off_for_ms is called (and from then on in that
\* boot) the 0.60 V select is programmed in vreg_lp_entry, the VREG control
\* interface is unlocked, disable_usb has powered the USB PHY down and
\* scratch[0] has been incremented exactly once in this boot; it is never
\* incremented twice, and enter_dormant_p1_7 is never called.
C5_PowerDownPrecedesSleep ==
    /\ pc \in {"t_off", "t_loop"} =>
           /\ Field(vreg_lp_entry, POWMAN_VREG_LP_ENTRY_VSEL_LSB, 5)
                  = VREG_VOLTAGE_0_60
           /\ BitAnd(vreg_ctrl, POWMAN_VREG_CTRL_UNLOCK_BITS.lo)
                  = POWMAN_VREG_CTRL_UNLOCK_BITS.lo
           /\ {"TX_PD", "RX_PD"} \subseteq usb_phy_direct
           /\ {"TX_PD_OVERRIDE_EN", "RX_PD_OVERRIDE_EN"}
                  \subseteq usb_phy_override
           /\ incThisBoot = 1
    /\ incThisBoot <= 1
    /\ dormantReqs = 0
    /\ powman_state = 15
    /\ ~badpasswd

\* C5 witness: the sleep call of a later boot, with the register holding a
\* select other than the one it started with.
C5_Witness ==
    /\ pc = "t_off" /\ boots = 2 /\ incThisBoot = 1
    /\ Field(vreg_lp_entry, POWMAN_VREG_LP_ENTRY_VSEL_LSB, 5) = 1
    /\ BitAnd(vreg_lp_entry, 15) = 4


---------------------------------------------------------------------------
(* src/unnamed/part_001: ADXL367 accelerometer reader                      *)

MaxFires == 3
BYTE_MAX == 255

\* A faulty variant of Int16ToWord: the (int16_t) cast is left out, so the
\* pattern is zero-extended.
Int16ToWord_NoCast(u) == W(0, u)

\* (int16_t)u for a 16-bit pattern u, promoted to int: the 32-bit word.
Int16ToWord(u) == IF u >= 32768 THEN W(65535, u) ELSE W(0, u)

\* w >> 2 on a signed int (arm-none-eabi-gcc shifts arithmetically)
Asr2(w) ==
    W((w.hi \div 4) + (IF w.hi >= 32768 THEN 49152 ELSE 0),
      (w.lo \div 4) + (w.hi % 4) * 16384)

\* The int16_t a 16-bit pattern stands for.
ToInt16(u) == IF u >= 32768 THEN u - 65536 ELSE u

\* (int16_t)((hi << 8) | lo) >> 2, stored to an int16_t (lines 68-70)
adxl367_sample(hi, lo) ==
    ToInt16(Asr2(Int16ToWord(BitOr(hi * 256, lo))).lo)

\* adxl367_read_accel_data lines 68-70
adxl367_decode(d) ==
    <<adxl367_sample(d[1], d[2]),
      adxl367_sample(d[3], d[4]),
      adxl367_sample(d[5], d[6])>>

\* The bytes the sensor may return for the three axes.
DataSamples ==
    {<<0, 0, 0, 0, 0, 0>>,
     <<255, 252, 0, 4, 127, 255>>,
     <<128, 0, 64, 3, 255, 255>>}

\* A faulty variant of cs_deselect: the pin is left low.
cs_deselect_Low == 1 - 1

\* cs_select line 43 and cs_deselect line 47: the level put on the CS pin
cs_select == 0
cs_deselect == 1

InitAccel ==
    /\ pc = "a_init"
    /\ cs = 0 /\ csDriven = FALSE
    /\ display_update_needed = FALSE
    /\ timerArmed = FALSE /\ sinceFire = FALSE
    /\ nFired = 0 /\ nRead = 0 /\ nPrinted = 0 /\ merged = FALSE
    /\ spiBytes = 0
    /\ data = <<0, 0, 0, 0, 0, 0>> /\ raw = <<0, 0, 0>>
    /\ IdleHw /\ IdleGpio /\ IdleTimed

AccelStep(from, to) == pc = from /\ pc' = to

\* main lines 83-89
accel_stdio_init ==
    /\ AccelStep("a_init", "a_spi_init")
    /\ UNCHANGED <<hwVars, gpioVars, timedVars, accelVars>>

\* main lines 93-96
accel_spi_init ==
    /\ AccelStep("a_spi_init", "a_cs_init")
    /\ UNCHANGED <<hwVars, gpioVars, timedVars, accelVars>>

\* main line 97: gpio_init makes the pin an input with output value 0
accel_cs_gpio_init ==
    /\ AccelStep("a_cs_init", "a_cs_dir")
    /\ cs' = 0 /\ csDriven' = FALSE
    /\ UNCHANGED <<hwVars, gpioVars, timedVars, display_update_needed,
                   timerArmed, sinceFire, nFired, nRead, nPrinted, merged,
                   spiBytes, data, raw>>

\* main line 98
accel_cs_set_dir ==
    /\ AccelStep("a_cs_dir", "a_cs_high")
    /\ csDriven' = TRUE
    /\ UNCHANGED <<hwVars, gpioVars, timedVars, cs, display_update_needed,
                   timerArmed, sinceFire, nFired, nRead, nPrinted, merged,
                   spiBytes, data, raw>>

\* gpio_put(SPI_ACCEL_CS_PIN, level), with the rest of the program's state
\* left alone
PutCs(level) ==
    /\ cs' = level
    /\ UNCHANGED <<hwVars, gpioVars, timedVars, csDriven,
                   display_update_needed, timerArmed, sinceFire, nFired,
                   nRead, nPrinted, merged, data, raw>>

\* main lines 99-100
accel_cs_deselect_init ==
    /\ AccelStep("a_cs_high", "a_w_select")
    /\ PutCs(1)
    /\ UNCHANGED spiBytes

\* spi_write_blocking / spi_read_blocking of n bytes
SpiTransfer(n) ==
    /\ spiBytes' = spiBytes + n
    /\ UNCHANGED <<hwVars, gpioVars, timedVars, cs, csDriven,
                   display_update_needed, timerArmed, sinceFire, nFired,
                   nRead, nPrinted, merged, raw>>

\* main line 103, adxl367_write_register line 52
adxl367_write_register_select ==
    /\ AccelStep("a_w_select", "a_w_xfer")
    /\ PutCs(cs_select)
    /\ spiBytes' = 0

\* adxl367_write_register line 53
adxl367_write_register_xfer ==
    /\ AccelStep("a_w_xfer", "a_w_deselect")
    /\ SpiTransfer(3)
    /\ UNCHANGED data

\* adxl367_write_register line 54
adxl367_write_register_deselect ==
    /\ AccelStep("a_w_deselect", "a_sleep")
    /\ PutCs(cs_deselect)
    /\ UNCHANGED spiBytes

\* main line 104
accel_sleep ==
    /\ AccelStep("a_sleep", "a_add_timer")
    /\ UNCHANGED <<hwVars, gpioVars, timedVars, accelVars>>

\* main lines 108-109
accel_add_repeating_timer ==
    /\ AccelStep("a_add_timer", "a_test")
    /\ timerArmed' = TRUE
    /\ sinceFire' = TRUE
    /\ UNCHANGED <<hwVars, gpioVars, timedVars, cs, csDriven,
                   display_update_needed, nFired, nRead,
                   nPrinted, merged, spiBytes, data, raw>>

\* main line 114
accel_test_flag ==
    /\ pc = "a_test"
    /\ pc' = IF display_update_needed THEN "a_reset" ELSE "a_wfi"
    /\ UNCHANGED <<hwVars, gpioVars, timedVars, accelVars>>

\* main line 115
accel_reset_flag ==
    /\ AccelStep("a_reset", "a_r_select")
    /\ display_update_needed' = FALSE
    /\ UNCHANGED <<hwVars, gpioVars, timedVars, cs, csDriven, timerArmed,
                   sinceFire, nFired, nRead, nPrinted, merged, spiBytes,
                   data, raw>>

\* main line 119, adxl367_read_accel_data line 67,
\* adxl367_read_registers line 59
adxl367_read_registers_select ==
    /\ AccelStep("a_r_select", "a_r_cmd")
    /\ PutCs(cs_select)
    /\ spiBytes' = 0

\* adxl367_read_registers line 60
adxl367_read_registers_cmd ==
    /\ AccelStep("a_r_cmd", "a_r_read")
    /\ SpiTransfer(2)
    /\ UNCHANGED data

\* adxl367_read_registers line 61
adxl367_read_registers_read ==
    /\ AccelStep("a_r_read", "a_r_deselect")
    /\ SpiTransfer(6)
    /\ data' \in DataSamples

\* adxl367_read_registers line 62
adxl367_read_registers_deselect ==
    /\ AccelStep("a_r_deselect", "a_decode")
    /\ PutCs(cs_deselect)
    /\ UNCHANGED spiBytes

\* adxl367_read_accel_data lines 68-70
adxl367_read_accel_data_decode ==
    /\ AccelStep("a_decode", "a_print")
    /\ raw' = adxl367_decode(data)
    /\ nRead' = nRead + 1
    /\ UNCHANGED <<hwVars, gpioVars, timedVars, cs, csDriven,
                   display_update_needed, timerArmed, sinceFire, nFired,
                   nPrinted, merged, spiBytes, data>>

\* main lines 122-127
accel_print ==
    /\ AccelStep("a_print", "a_wfi")
    /\ nPrinted' = nPrinted + 1
    /\ UNCHANGED <<hwVars, gpioVars, timedVars, cs, csDriven,
                   display_update_needed, timerArmed, sinceFire, nFired,
                   nRead, merged, spiBytes, data, raw>>

\* main line 131: __wfi() halts the CPU until the next interrupt
accel_wfi ==
    /\ AccelStep("a_wfi", "a_halted")
    /\ sinceFire' = FALSE
    /\ UNCHANGED <<hwVars, gpioVars, timedVars, cs, csDriven,
                   display_update_needed, timerArmed, nFired, nRead,
                   nPrinted, merged, spiBytes, data, raw>>

\* The timer interrupt, lines 75-78.  It preempts main anywhere once the
\* timer is armed and wakes a halted CPU.  The period (DISPLAY_INTERVAL_MS,
\* 1000 ms) is far longer than a pass of the loop: after the timer is armed
\* or has fired, it does not fire again before main has executed __wfi.
repeating_timer_callback ==
    /\ timerArmed
    /\ ~sinceFire
    /\ nFired < MaxFires
    /\ display_update_needed' = TRUE
    /\ merged' = (merged \/ display_update_needed)
    /\ nFired' = nFired + 1
    /\ sinceFire' = TRUE
    /\ pc' = IF pc = "a_halted" THEN "a_test" ELSE pc
    /\ UNCHANGED <<hwVars, gpioVars, timedVars, cs, csDriven, timerArmed,
                   nRead, nPrinted, spiBytes, data, raw>>

\* Any other interrupt (stdio, ...) wakes the halted CPU; its handler does
\* not touch the program's variables.
accel_other_interrupt ==
    /\ AccelStep("a_halted", "a_test")
    /\ UNCHANGED <<hwVars, gpioVars, timedVars, accelVars>>

NextAccel ==
    \/ accel_stdio_init
    \/ accel_spi_init
    \/ accel_cs_gpio_init
    \/ accel_cs_set_dir
    \/ accel_cs_deselect_init
    \/ adxl367_write_register_select
    \/ adxl367_write_register_xfer
    \/ adxl367_write_register_deselect
    \/ accel_sleep
    \/ accel_add_repeating_timer
    \/ accel_test_flag
    \/ accel_reset_flag
    \/ adxl367_read_registers_select
    \/ adxl367_read_registers_cmd
    \/ adxl367_read_registers_read
    \/ adxl367_read_registers_deselect
    \/ adxl367_read_accel_data_decode
    \/ accel_print
    \/ accel_wfi
    \/ repeating_timer_callback
    \/ accel_other_interrupt

SpecAccel == InitAccel /\ [][NextAccel]_vars

\* C6: no firing of the timer is lost or merged with another: each one
\* finds the flag of the firing before it already taken by the main loop,
\* and reads and printed lines keep one-to-one with the firings.
C6_OneDisplayPerFiring ==
    /\ ~merged
    /\ nPrinted <= nRead /\ nRead <= nFired

InTransaction ==
    pc \in {"a_w_xfer", "a_w_deselect", "a_r_cmd", "a_r_read", "a_r_deselect"}
CsInitialised ==
    pc \notin {"a_init", "a_spi_init", "a_cs_init", "a_cs_dir", "a_cs_high"}

\* C9: after initialization CS is driven, and low exactly while a write or
\* read transaction is in progress; bytes move only while CS is low; CS
\* rises only after the transaction's last byte (3 of a write, 2 + 6 of a
\* read) and falls only from high with no byte moved yet; CS is high
\* whenever main is at the __wfi.
C9_ChipSelectDiscipline ==
    /\ [](CsInitialised => (csDriven /\ (cs = 0 <=> InTransaction)))
    /\ [](pc \in {"a_wfi", "a_halted"} => cs = 1)
    /\ [][spiBytes' > spiBytes => (cs = 0 /\ cs' = 0 /\ csDriven)]_vars
    /\ [][(CsInitialised /\ cs = 0 /\ cs' = 1) => spiBytes \in {3, 8}]_vars
    /\ [][(CsInitialised /\ cs = 1 /\ cs' = 0) => spiBytes' = 0]_vars

\* C9 witness: the six data bytes of a read are about to move, CS low,
\* after the timer has fired.
C9_Witness ==
    pc = "a_r_read" /\ cs = 0 /\ spiBytes = 2 /\ nFired = 2 /\ nRead = 1

---------------------------------------------------------------------------
(* adxl367_read_accel_data on every pair of data bytes                     *)

\* Bytes of the two axes that are not under test.
FillerSamples == {<<18, 52, 254, 220>>, <<255, 255, 0, 0>>}

\* data[] with (hi, lo) as the pair of `axis' and f as the other two pairs
DataWith(axis, hi, lo, f) ==
    CASE axis = 1 -> <<hi, lo, f[1], f[2], f[3], f[4]>>
      [] axis = 2 -> <<f[1], f[2], hi, lo, f[3], f[4]>>
      [] axis = 3 -> <<f[1], f[2], f[3], f[4], hi, lo>>

InitDecode ==
    /\ pc = "d_read"
    /\ \E axis \in 1..3, hi \in 0..BYTE_MAX, lo \in 0..BYTE_MAX,
          f \in FillerSamples :
           data = DataWith(axis, hi, lo, f)
    /\ raw = <<0, 0, 0>>
    /\ cs = 1 /\ csDriven = TRUE /\ display_update_needed = FALSE
    /\ timerArmed = FALSE /\ sinceFire = FALSE
    /\ nFired = 0 /\ nRead = 0 /\ nPrinted = 0 /\ merged = FALSE
    /\ spiBytes = 0
    /\ IdleHw /\ IdleGpio /\ IdleTimed

\* adxl367_read_accel_data lines 68-70 on the bytes just read
decode_sample ==
    /\ AccelStep("d_read", "d_done")
    /\ raw' = adxl367_decode(data)
    /\ UNCHANGED <<hwVars, gpioVars, timedVars, cs, csDriven,
                   display_update_needed, timerArmed, sinceFire, nFired,
                   nRead, nPrinted, merged, spiBytes, data>>

NextDecode == decode_sample

SpecDecode == InitDecode /\ [][NextDecode]_vars

\* hi*256 + lo as a signed 16-bit two's-complement value
Signed16(hi, lo) ==
    IF hi >= 128 THEN hi * 256 + lo - 65536 ELSE hi * 256 + lo

\* floor(s / 4)
FloorDiv4(s) == IF s >= 0 THEN s \div 4 ELSE -((3 - s) \div 4)

\* What C10 says of the sample decoded from the pair (hi, lo).
SampleOk(r, hi, lo) ==
    /\ r = FloorDiv4(Signed16(hi, lo))
    /\ r \in -8192..8191
    /\ (r < 0) <=> (hi >= 128)
    /\ r = adxl367_sample(hi, lo - (lo % 4))

\* C10: each axis' result is floor(s / 4) of its own byte pair read as a
\* signed 16-bit value: within -8192..8191, negative exactly when hi >= 128,
\* independent of the two low bits of lo; x from bytes (0,1), y from (2,3),
\* z from (4,5).
C10_SampleDecoding ==
    pc = "d_done" =>
        /\ SampleOk(raw[1], data[1], data[2])
        /\ SampleOk(raw[2], data[3], data[4])
        /\ SampleOk(raw[3], data[5], data[6])

\* C10 witness: the most negative sample on the z axis, beside a positive
\* x and a negative y.
C10_Witness ==
    /\ pc = "d_done"
    /\ data = <<18, 52, 254, 220, 128, 3>>
    /\ raw = <<1165, -73, -8192>>


=============================================================================
